---- MODULE Spec2Model ----
(***************************************************************************)
(* Model of the C++ Docker demo application: main() (src/src/main.cpp)     *)
(* and class App (src/src/app.cpp, src/include/app.h).                     *)
(*                                                                         *)
(* The program is sequential.  Every call the code makes to the fmt or     *)
(* spdlog library inside the body of main's try block is one step of the   *)
(* model.  Such a call either returns, or throws: App::run is documented   *)
(* "@throws std::exception May throw if logging or formatting operations   *)
(* fail" (app.h:63) and main catches both std::exception and (...)         *)
(* (main.cpp:48-57), so a throwing call raises one of the exceptions of    *)
(* Errors and has no other effect.  The calls made while an exception is   *)
(* being handled -- the logging call of App::cleanup, run by the           *)
(* implicitly noexcept destructor, and the spdlog::error calls of the two  *)
(* handlers -- are modelled as returning normally.  std::cout never throws *)
(* (the stream's exception mask is left empty).                            *)
(***************************************************************************)
EXTENDS Integers, Sequences, FiniteSets, TLC

VARIABLES
    pc,        \* position of the single thread of control
    ret,       \* position App::greet returns to
    level,     \* spdlog's global level threshold
    log,       \* the logging sink: sequence of [lvl, text]
    out,       \* standard output: sequence of the strings inserted into std::cout
    app,       \* the App object of main: "none", "alive", "destroyed"
    exc,       \* the exception in flight or being handled
    status,    \* <<value returned by main>>; NoStatus until a return statement ran
    name,      \* parameter of App::greet
    greeting,  \* local of App::greet
    i,         \* loop variable of App::run
    message,   \* local of the loop body of App::run
    calls,     \* number of greet calls begun by a direct caller (GreetSpec)
    inputs     \* the names a direct caller passes to greet, in order (GreetSpec)

vars == <<pc, ret, level, log, out, app, exc, status, name, greeting, i, message, calls, inputs>>

(***************************************************************************)
(* Bounds and program constants                                            *)
(***************************************************************************)
\* bound: number of App::greet calls a direct caller makes in GreetSpec
MaxCalls == 2

\* app.cpp:46  for (int i = 1; i <= 5; ++i)
FirstItem == 1
LastItem == 5

\* main.cpp:46  return 0
ExitSuccess == 0

\* mutant of ExitFailure: a handler returns the success status
ExitFailure_Success == ExitSuccess

\* main.cpp:51, 56  return 1
ExitFailure == 1

\* main has not executed a return statement
NoStatus == <<>>

(***************************************************************************)
(* Exceptions                                                              *)
(***************************************************************************)
NoExc == [kind |-> "none", what |-> ""]

\* e.what() of the std::exception objects the library calls may throw
Whats == {"bad allocation", "format error"}

\* recognized errors (derived from std::exception) and the unrecognized one
Errors == [kind : {"std"}, what : Whats] \cup {[kind |-> "unknown", what |-> ""]}

(***************************************************************************)
(* Logging sink                                                            *)
(***************************************************************************)
\* spdlog::level::level_enum, in increasing severity
Levels == <<"trace", "debug", "info", "warn", "err", "critical", "off">>

Rank(l) == CHOOSE k \in 1..Len(Levels) : Levels[k] = l

Entry(lvl, text) == [lvl |-> lvl, text |-> text]

\* spdlog::log: a message below the threshold is dropped
Log(l, lvl, text) ==
    IF Rank(lvl) >= Rank(level) THEN Append(l, Entry(lvl, text)) ELSE l

(***************************************************************************)
(* fmt::format                                                             *)
(***************************************************************************)
Digit(d) == <<"0", "1", "2", "3", "4", "5", "6", "7", "8", "9">>[d + 1]

\* decimal rendering of an int argument
RECURSIVE IntToStr(_)
IntToStr(n) ==
    IF n < 0 THEN "-" \o IntToStr(-n)
    ELSE IF n < 10 THEN Digit(n)
    ELSE IntToStr(n \div 10) \o Digit(n % 10)

\* a format string is the sequence of its literal pieces and "{}" fields;
\* every replacement field is replaced by the argument
RECURSIVE Format(_, _)
Format(f, arg) ==
    IF f = <<>> THEN ""
    ELSE (IF Head(f) = "{}" THEN arg ELSE Head(f)) \o Format(Tail(f), arg)

\* the string literals of the program
BannerText == "=== C++ Docker Application ==="
InitText == "Initializing application..."
CleanupText == "Cleaning up application..."
\* mutant of StartText: the text of the component contract
StartText_Contract == "Starting application"
StartText == "Starting C++ Docker application"
CompletedText == "Application completed successfully"
GreetFmt == <<"Hello, ", "{}", "!">>
ItemFmt == <<"Processing item #", "{}">>
ErrorFmt == <<"Application error: ", "{}">>
UnknownText == "Unknown error occurred"
\* mutant of RunNames: the two greetings in the other order
RunNames_Swapped == <<"Conan Package Manager", "Docker World">>
RunNames == <<"Docker World", "Conan Package Manager">>

(***************************************************************************)
(* Initial state: the process at entry of main                             *)
(***************************************************************************)
Init ==
    /\ pc = "main_set_level"
    /\ ret = ""
    /\ level = "info"
    /\ log = <<>>
    /\ out = <<>>
    /\ app = "none"
    /\ exc = NoExc
    /\ status = NoStatus
    /\ name = ""
    /\ greeting = ""
    /\ i = 0
    /\ message = ""
    /\ calls = 0
    /\ inputs = <<>>

\* a library call inside the try block throws e: control leaves the scopes
Throw(e) ==
    /\ exc' = e
    /\ pc' = "unwind"
    /\ ret' = ""
    /\ name' = ""
    /\ greeting' = ""
    /\ i' = 0
    /\ message' = ""
    /\ UNCHANGED <<level, log, out, app, status, calls, inputs>>

(***************************************************************************)
(* main                                                                    *)
(***************************************************************************)
\* spdlog::set_level(spdlog::level::info)
MainSetLevel ==
    /\ pc = "main_set_level"
    /\ level' = "info"
    /\ pc' = "main_banner"
    /\ UNCHANGED <<ret, log, out, app, exc, status, name, greeting, i, message, calls, inputs>>

\* spdlog::info("=== C++ Docker Application ===")
MainBanner ==
    /\ pc = "main_banner"
    /\ \/ /\ log' = Log(log, "info", BannerText)
          /\ pc' = "app_ctor"
          /\ UNCHANGED <<ret, level, out, app, exc, status, name, greeting, i, message, calls, inputs>>
       \/ \E e \in Errors : Throw(e)

\* mutant of initialize: the notice is logged twice
initialize_Twice(l) == Log(Log(l, "info", InitText), "info", InitText)

\* App::initialize
initialize(l) == Log(l, "info", InitText)

\* App app;  (App::App calls initialize)
AppCtor ==
    /\ pc = "app_ctor"
    /\ \/ /\ log' = initialize(log)
          /\ app' = "alive"
          /\ pc' = "run_start"
          /\ UNCHANGED <<ret, level, out, exc, status, name, greeting, i, message, calls, inputs>>
       \/ \E e \in Errors : Throw(e)

(***************************************************************************)
(* App::run                                                                *)
(***************************************************************************)
\* spdlog::info("Starting C++ Docker application")
RunStart ==
    /\ pc = "run_start"
    /\ \/ /\ log' = Log(log, "info", StartText)
          /\ pc' = "run_greet1"
          /\ UNCHANGED <<ret, level, out, app, exc, status, name, greeting, i, message, calls, inputs>>
       \/ \E e \in Errors : Throw(e)

\* greet("Docker World"); greet("Conan Package Manager");
RunGreet ==
    /\ pc \in {"run_greet1", "run_greet2"}
    /\ name' = IF pc = "run_greet1" THEN RunNames[1] ELSE RunNames[2]
    /\ ret' = IF pc = "run_greet1" THEN "run_greet2" ELSE "run_for_init"
    /\ pc' = "greet_format"
    /\ UNCHANGED <<level, log, out, app, exc, status, greeting, i, message, calls, inputs>>

\* int i = 1
RunForInit ==
    /\ pc = "run_for_init"
    /\ i' = FirstItem
    /\ pc' = "run_for_test"
    /\ UNCHANGED <<ret, level, log, out, app, exc, status, name, greeting, message, calls, inputs>>

\* mutant of ItemsRemain: the loop stops one item early
ItemsRemain_Strict(k) == k < LastItem

\* the loop condition  i <= 5
ItemsRemain(k) == k <= LastItem

\* the for statement tests its condition; when false, i goes out of scope
RunForTest ==
    /\ pc = "run_for_test"
    /\ IF ItemsRemain(i)
         THEN pc' = "run_item_format" /\ i' = i
         ELSE pc' = "run_completed" /\ i' = 0
    /\ UNCHANGED <<ret, level, log, out, app, exc, status, name, greeting, message, calls, inputs>>

\* const auto message = fmt::format("Processing item #{}", i)
RunItemFormat ==
    /\ pc = "run_item_format"
    /\ \/ /\ message' = Format(ItemFmt, IntToStr(i))
          /\ pc' = "run_item_log"
          /\ UNCHANGED <<ret, level, log, out, app, exc, status, name, greeting, i, calls, inputs>>
       \/ \E e \in Errors : Throw(e)

\* spdlog::info(message); ++i
RunItemLog ==
    /\ pc = "run_item_log"
    /\ \/ /\ log' = Log(log, "info", message)
          /\ message' = ""
          /\ i' = i + 1
          /\ pc' = "run_for_test"
          /\ UNCHANGED <<ret, level, out, app, exc, status, name, greeting, calls, inputs>>
       \/ \E e \in Errors : Throw(e)

\* spdlog::info("Application completed successfully"); run returns to main
RunCompleted ==
    /\ pc = "run_completed"
    /\ \/ /\ log' = Log(log, "info", CompletedText)
          /\ pc' = "main_return"
          /\ UNCHANGED <<ret, level, out, app, exc, status, name, greeting, i, message, calls, inputs>>
       \/ \E e \in Errors : Throw(e)

(***************************************************************************)
(* App::greet                                                              *)
(***************************************************************************)
\* const auto greeting = fmt::format("Hello, {}!", name)
GreetFormat ==
    /\ pc = "greet_format"
    /\ \/ /\ greeting' = Format(GreetFmt, name)
          /\ pc' = "greet_log"
          /\ UNCHANGED <<ret, level, log, out, app, exc, status, name, i, message, calls, inputs>>
       \/ \E e \in Errors : Throw(e)

\* spdlog::info(greeting)
GreetLog ==
    /\ pc = "greet_log"
    /\ \/ /\ log' = Log(log, "info", greeting)
          /\ pc' = "greet_cout"
          /\ UNCHANGED <<ret, level, out, app, exc, status, name, greeting, i, message, calls, inputs>>
       \/ \E e \in Errors : Throw(e)

\* mutant of Cout: std::endl is left out
Cout_NoNewline(o, text) == Append(o, text)

\* std::cout << greeting << std::endl
Cout(o, text) == Append(Append(o, text), "\n")

\* std::cout << greeting << std::endl; greet returns to its caller
GreetCout ==
    /\ pc = "greet_cout"
    /\ out' = Cout(out, greeting)
    /\ pc' = ret
    /\ ret' = ""
    /\ name' = ""
    /\ greeting' = ""
    /\ UNCHANGED <<level, log, app, exc, status, i, message, calls, inputs>>

(***************************************************************************)
(* Leaving the try block                                                   *)
(***************************************************************************)
\* return 0: the return value is set, then app goes out of scope
MainReturn ==
    /\ pc = "main_return"
    /\ status' = <<ExitSuccess>>
    /\ pc' = "app_dtor"
    /\ UNCHANGED <<ret, level, log, out, app, exc, name, greeting, i, message, calls, inputs>>

\* mutant of Unwind: the handler is entered without destroying app
Unwind_NoDtor ==
    /\ pc = "unwind"
    /\ pc' = "catch"
    /\ UNCHANGED <<ret, level, log, out, app, exc, status, name, greeting, i, message, calls, inputs>>

\* mutant of Unwind: the destructor runs even when construction did not complete
Unwind_AlwaysDtor ==
    /\ pc = "unwind"
    /\ pc' = "app_dtor"
    /\ UNCHANGED <<ret, level, log, out, app, exc, status, name, greeting, i, message, calls, inputs>>

\* stack unwinding: a constructed app is destroyed, then a handler is entered
Unwind ==
    /\ pc = "unwind"
    /\ pc' = IF app = "alive" THEN "app_dtor" ELSE "catch"
    /\ UNCHANGED <<ret, level, log, out, app, exc, status, name, greeting, i, message, calls, inputs>>

\* mutant of cleanup: the notice is not logged
cleanup_Silent(l) == l

\* App::cleanup
cleanup(l) == Log(l, "info", CleanupText)

\* App::~App calls cleanup
AppDtor ==
    /\ pc = "app_dtor"
    /\ log' = cleanup(log)
    /\ app' = "destroyed"
    /\ pc' = IF exc = NoExc THEN "exit" ELSE "catch"
    /\ UNCHANGED <<ret, level, out, exc, status, name, greeting, i, message, calls, inputs>>

\* mutant of StdErrorText: the message of the exception is left out
StdErrorText_NoWhat(e) == Format(ErrorFmt, "")

\* the text logged by  catch (const std::exception& e)
StdErrorText(e) == Format(ErrorFmt, e.what)

\* catch (const std::exception& e) { spdlog::error(...); return 1; }
CatchStd ==
    /\ pc = "catch"
    /\ exc.kind = "std"
    /\ log' = Log(log, "err", StdErrorText(exc))
    /\ status' = <<ExitFailure>>
    /\ pc' = "exit"
    /\ UNCHANGED <<ret, level, out, app, exc, name, greeting, i, message, calls, inputs>>

\* catch (...) { spdlog::error("Unknown error occurred"); return 1; }
CatchAll ==
    /\ pc = "catch"
    /\ exc.kind # "std"
    /\ log' = Log(log, "err", UnknownText)
    /\ status' = <<ExitFailure>>
    /\ pc' = "exit"
    /\ UNCHANGED <<ret, level, out, app, exc, name, greeting, i, message, calls, inputs>>

Next ==
    \/ MainSetLevel
    \/ MainBanner
    \/ AppCtor
    \/ RunStart
    \/ RunGreet
    \/ GreetFormat
    \/ GreetLog
    \/ GreetCout
    \/ RunForInit
    \/ RunForTest
    \/ RunItemFormat
    \/ RunItemLog
    \/ RunCompleted
    \/ MainReturn
    \/ Unwind
    \/ AppDtor
    \/ CatchStd
    \/ CatchAll

Spec == Init /\ [][Next]_vars

(***************************************************************************)
(* App::greet called directly (it is public: app.h:85), as in the usage    *)
(* example  app.greet("World")  of app.h:82                                *)
(***************************************************************************)
\* the names passed to greet; the empty name is allowed (app.h:78)
GreetNames == {"", "World", "Docker World", "Conan Package Manager"}

\* the state after  App app;  completed under spdlog's level info
InitGreet ==
    /\ pc = "caller"
    /\ ret = ""
    /\ level = "info"
    /\ log = initialize(<<>>)
    /\ out = <<>>
    /\ app = "alive"
    /\ exc = NoExc
    /\ status = NoStatus
    /\ name = ""
    /\ greeting = ""
    /\ i = 0
    /\ message = ""
    /\ calls = 0
    /\ inputs \in UNION {[1..n -> GreetNames] : n \in 0..MaxCalls}

\* app.greet(inputs[calls + 1])
CallGreet ==
    /\ pc = "caller"
    /\ calls < Len(inputs)
    /\ calls' = calls + 1
    /\ name' = inputs[calls + 1]
    /\ ret' = "caller"
    /\ pc' = "greet_format"
    /\ UNCHANGED <<level, log, out, app, exc, status, greeting, i, message, inputs>>

NextGreet ==
    \/ CallGreet
    \/ GreetFormat
    \/ GreetLog
    \/ GreetCout

GreetSpec == InitGreet /\ [][NextGreet]_vars

(***************************************************************************)
(* Observations of the log and of standard output                          *)
(***************************************************************************)
IsPrefix(s, t) == Len(s) <= Len(t) /\ \A k \in 1..Len(s) : s[k] = t[k]

Texts(l) == [k \in 1..Len(l) |-> l[k].text]

InfoLines == SelectSeq(log, LAMBDA e : e.lvl = "info")

ErrorLines == SelectSeq(log, LAMBDA e : e.lvl = "err")

Positions(text) == {k \in 1..Len(log) : log[k] = Entry("info", text)}

\* the notices of a complete run, as the code emits them
RunNotices ==
    << "Starting C++ Docker application",
       "Hello, Docker World!",
       "Hello, Conan Package Manager!",
       "Processing item #1",
       "Processing item #2",
       "Processing item #3",
       "Processing item #4",
       "Processing item #5",
       "Application completed successfully" >>

\* the entries of the log from the third on: what run has emitted so far
RunPart == IF Len(log) >= 3 THEN Texts(SubSeq(log, 3, Len(log))) ELSE <<>>

\* control is inside App::run (or inside a greet called by it)
InRun ==
    pc \in {"run_start", "run_greet1", "run_greet2", "greet_format", "greet_log",
            "greet_cout", "run_for_init", "run_for_test", "run_item_format",
            "run_item_log", "run_completed"}

(***************************************************************************)
(* C1: a call of App::run that does not fail appends exactly 9             *)
(* informational entries: the start notice, the greetings for "Docker      *)
(* World" and "Conan Package Manager", "Processing item #1" .. "#5" in     *)
(* increasing order without gap or repeat, and last "Application completed *)
(* successfully"; while run executes, what it has emitted is a prefix of   *)
(* that sequence, so nothing else is emitted in between.                   *)
(***************************************************************************)
C1_RunEmitsNineNotices ==
    /\ InRun => /\ IsPrefix(RunPart, RunNotices)
                /\ \A k \in 1..Len(log) : log[k].lvl = "info"
    /\ pc = "main_return" =>
          /\ Len(log) = 2 + 9
          /\ RunPart = RunNotices
          /\ \A k \in 3..Len(log) : log[k].lvl = "info"
          /\ \A k \in 1..5 : log[5 + k].text = "Processing item #" \o ToString(k)

C1_Witness ==
    /\ pc = "main_return"
    /\ exc = NoExc
    /\ log[Len(log)].text = "Application completed successfully"
    /\ log[10].text = "Processing item #5"

(***************************************************************************)
(* C2 as stated: construction emits exactly one "Initializing              *)
(* application..." notice and no log entry of the program precedes it.     *)
(***************************************************************************)
C2_InitNoticeIsFirstEntry ==
    /\ app # "none" => Cardinality(Positions("Initializing application...")) = 1
    /\ \A k \in Positions("Initializing application...") : k = 1

(***************************************************************************)
(* C2 amended: the log never holds more than one "Initializing             *)
(* application..." notice, it holds exactly one once construction of the   *)
(* Application has completed, and the only entry that precedes it is the   *)
(* banner "=== C++ Docker Application ===" that main logs first.           *)
(***************************************************************************)
C2_InitNoticeFollowsBanner ==
    /\ Cardinality(Positions("Initializing application...")) <= 1
    /\ app # "none" => Cardinality(Positions("Initializing application...")) = 1
    /\ \A k \in Positions("Initializing application...") :
          /\ k = 2
          /\ log[1] = Entry("info", "=== C++ Docker Application ===")

C2_Witness ==
    /\ pc = "run_start"
    /\ app = "alive"
    /\ log = << Entry("info", "=== C++ Docker Application ==="),
                Entry("info", "Initializing application...") >>

(***************************************************************************)
(* C3: when the Application was constructed, destruction emits exactly one *)
(* "Cleaning up application..." notice, after run has ended: directly      *)
(* after "Application completed successfully" when run completed, after    *)
(* the failure when run raised an error; no informational notice follows   *)
(* the cleanup notice, and no execution ends with the Application alive.   *)
(***************************************************************************)
C3_CleanupOnceAfterRun ==
    /\ Cardinality(Positions("Cleaning up application...")) <= 1
    /\ app = "destroyed" <=> Cardinality(Positions("Cleaning up application...")) = 1
    /\ app = "destroyed" => pc \in {"catch", "exit"}
    /\ pc = "exit" => app \in {"none", "destroyed"}
    /\ \A k \in Positions("Cleaning up application...") :
          /\ \A j \in (k + 1)..Len(log) : log[j].lvl = "err"
          /\ exc = NoExc =>
                log[k - 1] = Entry("info", "Application completed successfully")
          /\ exc # NoExc =>
                /\ IsPrefix(Texts(SubSeq(log, 3, k - 1)), RunNotices)
                /\ k - 1 < 2 + 9

C3_Witness ==
    /\ pc = "exit"
    /\ app = "destroyed"
    /\ exc.kind = "std"
    /\ Len(log) = 7
    /\ log[6] = Entry("info", "Cleaning up application...")

(***************************************************************************)
(* C4: main returns 0 exactly when construction and run completed without  *)
(* error, and returns 1, with at least one error-level line logged, when   *)
(* an error was raised; it returns no other status and never 0 after an    *)
(* error.                                                                  *)
(***************************************************************************)
C4_ExitStatus ==
    /\ status \in {NoStatus, <<0>>, <<1>>}
    /\ exc # NoExc => status # <<0>>
    /\ pc = "exit" =>
          /\ status \in {<<0>>, <<1>>}
          /\ status = <<0>> <=> exc = NoExc
          /\ status = <<0>> =>
                /\ RunPart = RunNotices \o <<"Cleaning up application...">>
                /\ ErrorLines = <<>>
          /\ status = <<1>> => Len(ErrorLines) >= 1

C4_Witness ==
    /\ pc = "exit"
    /\ status = <<1>>
    /\ exc # NoExc
    /\ app = "none"
    /\ Len(ErrorLines) = 1

(***************************************************************************)
(* C5: an execution logs at most one error-level line; when an error       *)
(* reached main it is "Application error: <message>" with the error's      *)
(* message for a std::exception and "Unknown error occurred" otherwise,    *)
(* never both; an execution without error logs no error-level line.        *)
(***************************************************************************)
C5_OneErrorLine ==
    /\ Len(ErrorLines) <= 1
    /\ exc = NoExc => ErrorLines = <<>>
    /\ pc # "exit" => ErrorLines = <<>>
    /\ pc = "exit" /\ exc.kind = "std" =>
          Texts(ErrorLines) = << "Application error: " \o exc.what >>
    /\ pc = "exit" /\ exc.kind = "unknown" =>
          Texts(ErrorLines) = << "Unknown error occurred" >>

C5_Witness ==
    /\ pc = "exit"
    /\ exc = [kind |-> "std", what |-> "format error"]
    /\ log[Len(log)] = Entry("err", "Application error: format error")

(***************************************************************************)
(* C6: for every name, the empty one included, a greet(name) that returns  *)
(* has emitted exactly one informational entry "Hello, <name>!" and has    *)
(* then inserted the same text and a newline into standard output;         *)
(* "World" gives "Hello, World!" and "" gives "Hello, !"; no name is       *)
(* rejected.                                                               *)
(***************************************************************************)
C6_GreetLogsThenPrints ==
    /\ pc = "caller" =>
          /\ Len(log) = 1 + calls
          /\ Len(out) = 2 * calls
          /\ \A c \in 1..calls :
                /\ log[1 + c] = Entry("info", "Hello, " \o inputs[c] \o "!")
                /\ out[2 * c - 1] = "Hello, " \o inputs[c] \o "!"
                /\ out[2 * c] = "\n"
                /\ inputs[c] = "World" => out[2 * c - 1] = "Hello, World!"
                /\ inputs[c] = "" => out[2 * c - 1] = "Hello, !"
    /\ pc = "greet_log" => Len(log) = calls /\ Len(out) = 2 * (calls - 1)
    /\ pc = "greet_cout" =>
          /\ Len(log) = 1 + calls
          /\ Len(out) = 2 * (calls - 1)
          /\ log[Len(log)] = Entry("info", "Hello, " \o inputs[calls] \o "!")

C6_Witness ==
    /\ pc = "caller"
    /\ calls = 2
    /\ inputs = <<"", "World">>
    /\ out = <<"Hello, !", "\n", "Hello, World!", "\n">>

C8_StartTextOfContract ==
    /\ pc = "run_start" => log[Len(log)] = Entry("info", "Initializing application...")
    /\ pc = "run_greet1" =>
          /\ log[Len(log)] = Entry("info", "Starting application")
          /\ out = <<>>
    /\ pc = "main_return" =>
          log[Len(log)] = Entry("info", "Application completed successfully")
    /\ app = "destroyed" =>
          InfoLines[Len(InfoLines)] = Entry("info", "Cleaning up application...")

(***************************************************************************)
(* C8 amended: the first notice of run is "Starting C++ Docker             *)
(* application", emitted before the first greet; the other lifecycle       *)
(* notices read "Initializing application...", "Application completed     *)
(* successfully" and "Cleaning up application...".                         *)
(***************************************************************************)
C8_LifecycleTexts ==
    /\ pc = "run_start" => log[Len(log)] = Entry("info", "Initializing application...")
    /\ pc = "run_greet1" =>
          /\ log[Len(log)] = Entry("info", "Starting C++ Docker application")
          /\ Len(log) = 3
          /\ out = <<>>
    /\ InRun /\ pc # "run_start" =>
          log[3] = Entry("info", "Starting C++ Docker application")
    /\ pc = "main_return" =>
          log[Len(log)] = Entry("info", "Application completed successfully")
    /\ app = "destroyed" =>
          InfoLines[Len(InfoLines)] = Entry("info", "Cleaning up application...")

C8_Witness ==
    /\ pc = "run_greet1"
    /\ log[3] = Entry("info", "Starting C++ Docker application")
    /\ out = <<>>

(***************************************************************************)
(* C9: when run raises an error, the notices run emitted are a strict      *)
(* prefix of its 9 notices and do not include "Application completed       *)
(* successfully"; the cleanup notice follows them, then the error-level    *)
(* line, which is the last entry of the log.                               *)
(***************************************************************************)
C9_RunFailure ==
    /\ exc # NoExc => Positions("Application completed successfully") = {}
    /\ ErrorLines # <<>> => Positions("Application completed successfully") = {}
    /\ pc = "exit" /\ exc # NoExc /\ app # "none" =>
          LET n == Len(log) IN
          /\ n >= 4
          /\ log[n].lvl = "err"
          /\ log[n - 1] = Entry("info", "Cleaning up application...")
          /\ IsPrefix(Texts(SubSeq(log, 3, n - 2)), RunNotices)
          /\ n - 4 < 9

C9_Witness ==
    /\ pc = "exit"
    /\ exc.kind = "unknown"
    /\ app = "destroyed"
    /\ Len(log) = 9
    /\ log[7].text = "Processing item #2"
    /\ log[8].text = "Cleaning up application..."
    /\ log[9] = Entry("err", "Unknown error occurred")

(***************************************************************************)
(* C10: when construction does not complete, run is not invoked: no start, *)
(* greeting, progress, completion or cleanup notice is emitted, nothing is *)
(* written to standard output, and the execution ends with one error-level *)
(* line and status 1.  There are never more cleanup notices than           *)
(* initialization notices, and every greeting lies after the               *)
(* initialization notice and before the cleanup notice.                    *)
(***************************************************************************)
GreetingPositions ==
    Positions("Hello, Docker World!") \cup Positions("Hello, Conan Package Manager!")

C10_CleanupOnlyAfterConstruction ==
    /\ app = "none" =>
          /\ ~InRun
          /\ IsPrefix(Texts(InfoLines), <<"=== C++ Docker Application ===">>)
          /\ out = <<>>
    /\ pc = "exit" /\ app = "none" => Len(ErrorLines) = 1 /\ status = <<1>>
    /\ Cardinality(Positions("Cleaning up application..."))
          <= Cardinality(Positions("Initializing application..."))
    /\ Cardinality(Positions("Initializing application...")) <= 1
    /\ \A g \in GreetingPositions :
          /\ \E k \in Positions("Initializing application...") : k < g
          /\ \A c \in Positions("Cleaning up application...") : g < c

C10_Witness ==
    /\ pc = "exit"
    /\ app = "none"
    /\ status = <<1>>
    /\ log = << Entry("info", "=== C++ Docker Application ==="),
                Entry("err", "Application error: bad allocation") >>

====
